---- MODULE Spec2Model ----
(***************************************************************************)
(* Model of zli's argument-processing pipeline (index.ts): parseFlags,     *)
(* resolveAliases, resolveKebabCase, normalizeArrayFields, validateOptions,*)
(* processCommandExecution and processConfig.                              *)
(*                                                                         *)
(* A JavaScript string is a sequence of one-character strings, so that     *)
(* startsWith, slice, split, join and the per-character cluster loop are   *)
(* computed as the code computes them.  A JavaScript value is a record     *)
(* [t, b, s, a]: t is the runtime type tag, b the boolean, s the string    *)
(* and a the array elements.                                               *)
(***************************************************************************)
EXTENDS Integers, Sequences, FiniteSets, TLC

VARIABLES
    cfg,          \* the DefineConfig passed to processConfig
    args,         \* the argument vector passed to processConfig
    pc,           \* position in processConfig: "parseFlags", "exec", "done"
    i,            \* parseFlags: loop index (1-based)
    flags,        \* parseFlags: the flags object
    nonFlags,     \* parseFlags: the nonFlags list
    parsedFlags,  \* processConfig: what parseFlags returned
    command,      \* the command handed to processCommandExecution
    commandName,  \* processConfig: commandArgs[0]
    routedArgs,   \* the args handed to processCommandExecution
    handed,       \* validateOptions: the object handed to schema.parse
    trace,        \* the calls and exits made so far, in order
    outcome,      \* how processConfig ended
    invocation,   \* 1 during the first call of processConfig, 2 during the second
    first         \* what the first call selected, handed over and ended with

vars == <<cfg, args, pc, i, flags, nonFlags, parsedFlags, command, commandName, routedArgs,
          handed, trace, outcome, invocation, first>>

----------------------------------------------------------------------------
(* Bounds *)

MaxArgs == 3

----------------------------------------------------------------------------
(* JavaScript values *)

BoolV(bv) == [t |-> "boolean", b |-> bv, s |-> <<>>, a |-> <<>>]
StrV(sv) == [t |-> "string", b |-> FALSE, s |-> sv, a |-> <<>>]
ArrV(av) == [t |-> "array", b |-> FALSE, s |-> <<>>, a |-> av]
\* a function object inherited from Object.prototype (e.g. {}.toString)
NativeFn == [t |-> "function", b |-> FALSE, s |-> <<>>, a |-> <<>>]

\* string[] -> array value
StrArr(list) == ArrV([n \in 1..Len(list) |-> StrV(list[n])])

----------------------------------------------------------------------------
(* Strings *)

DASH == "-"
EQ == "="

startsWith(str, prefix) ==
    /\ Len(str) >= Len(prefix)
    /\ SubSeq(str, 1, Len(prefix)) = prefix

\* str.slice(n)
slice(str, n) == SubSeq(str, n + 1, Len(str))

includes(str, ch) == \E n \in 1..Len(str) : str[n] = ch

\* index of the first occurrence of ch in str, 0 when there is none
indexOf(str, ch) ==
    IF includes(str, ch)
    THEN CHOOSE n \in 1..Len(str) : str[n] = ch /\ \A m \in 1..(n - 1) : str[m] # ch
    ELSE 0

RECURSIVE split(_, _)
\* str.split(sep) for a one-character separator
split(str, sep) ==
    IF ~includes(str, sep)
    THEN <<str>>
    ELSE <<SubSeq(str, 1, indexOf(str, sep) - 1)>> \o split(slice(str, indexOf(str, sep)), sep)

RECURSIVE join(_, _)
\* parts.join(sep)
join(parts, sep) ==
    IF parts = <<>> THEN <<>>
    ELSE IF Len(parts) = 1 THEN parts[1]
    ELSE parts[1] \o sep \o join(Tail(parts), sep)

----------------------------------------------------------------------------
(* Words used by the configurations and the argument vectors *)

K_help == <<"h", "e", "l", "p">>
K_version == <<"v", "e", "r", "s", "i", "o", "n">>
K_name == <<"n", "a", "m", "e">>
K_verbose == <<"v", "e", "r", "b", "o", "s", "e">>
K_files == <<"f", "i", "l", "e", "s">>
K_androidMax == <<"a", "n", "d", "r", "o", "i", "d", "M", "a", "x">>
K_underscore == <<"_">>
W_run == <<"r", "u", "n">>
W_cp == <<"c", "p">>
W_ls == <<"l", "s">>
W_x == <<"x">>
W_toString == <<"t", "o", "S", "t", "r", "i", "n", "g">>
K_tags == <<"t", "a", "g", "s">>

\* property names every object literal inherits from Object.prototype
\* (the function-valued ones used as inputs here)
ObjectPrototypeKeys == {W_toString, <<"c", "o", "n", "s", "t", "r", "u", "c", "t", "o", "r">>}

----------------------------------------------------------------------------
(* JavaScript objects: own properties are a function from keys to values;  *)
(* the `in` operator and property reads also see Object.prototype.         *)

EmptyObj == [k \in {} |-> NativeFn]

\* key in obj
In(obj, key) == key \in DOMAIN obj \/ key \in ObjectPrototypeKeys

\* obj[key], for a key that is `in` obj
Get(obj, key) == IF key \in DOMAIN obj THEN obj[key] ELSE NativeFn

\* obj[key] = val
Set(obj, key, val) == [k \in (DOMAIN obj) \cup {key} |-> IF k = key THEN val ELSE obj[k]]

\* delete obj[key]
Delete(obj, key) == [k \in (DOMAIN obj) \ {key} |-> obj[k]]

----------------------------------------------------------------------------
(* parseFlags *)

addFlag(fl, key, value) ==
    IF In(fl, key)
    THEN LET existing == Get(fl, key)
         IN  IF existing.t = "array"
             THEN Set(fl, key, ArrV(Append(existing.a, value)))
             ELSE Set(fl, key, ArrV(<<existing, value>>))
    ELSE Set(fl, key, value)

RECURSIVE addCluster(_, _)
\* for (const char of key) addFlag(char, true)
addCluster(fl, key) ==
    IF key = <<>> THEN fl
    ELSE addCluster(addFlag(fl, <<Head(key)>>, BoolV(TRUE)), Tail(key))

\* takesNext without the test for a leading dash
takesNext_anyToken(argv, idx) ==
    /\ idx + 1 <= Len(argv)
    /\ argv[idx + 1] # <<>>

\* nextArg && !nextArg.startsWith('-'), nextArg = argv[idx + 1]
takesNext(argv, idx) ==
    /\ idx + 1 <= Len(argv)
    /\ argv[idx + 1] # <<>>
    /\ ~startsWith(argv[idx + 1], <<DASH>>)

\* const [flagName, ...valueParts] = key.split('='); the value is valueParts.join('=')
eqFlagName(key) == Head(split(key, EQ))

\* hasFlagName without the test: an empty flagName is stored too
hasFlagName_always(key) == TRUE

\* if (flagName)
hasFlagName(key) == eqFlagName(key) # <<>>

\* eqFlagValue as const [flagName, value] = key.split('=') would compute it
eqFlagValue_secondPart(key) == split(key, EQ)[2]

eqFlagValue(key) == join(Tail(split(key, EQ)), <<EQ>>)

\* clusterStep with the value lookahead of a single short flag for its last character
clusterStep_lookahead(st, argv, key) ==
    IF takesNext(argv, st.i)
    THEN [flags |-> addFlag(addCluster(st.flags, SubSeq(key, 1, Len(key) - 1)),
                            <<key[Len(key)]>>, StrV(argv[st.i + 1])),
          nonFlags |-> st.nonFlags, i |-> st.i + 2]
    ELSE [flags |-> addCluster(st.flags, key), nonFlags |-> st.nonFlags, i |-> st.i + 1]

\* the else branch of key.length === 1: every character is a boolean flag
clusterStep(st, argv, key) ==
    [flags |-> addCluster(st.flags, key), nonFlags |-> st.nonFlags, i |-> st.i + 1]

\* shortToken without the length test
shortToken_anyLength(arg) == startsWith(arg, <<DASH>>)

\* arg.startsWith('-') && arg.length > 1
shortToken(arg) == startsWith(arg, <<DASH>>) /\ Len(arg) > 1

\* valueOrTrue that stores the next token but leaves it to be scanned again
valueOrTrue_rescan(st, argv, key) ==
    IF takesNext(argv, st.i)
    THEN [flags |-> addFlag(st.flags, key, StrV(argv[st.i + 1])),
          nonFlags |-> st.nonFlags, i |-> st.i + 1]
    ELSE [flags |-> addFlag(st.flags, key, BoolV(TRUE)),
          nonFlags |-> st.nonFlags, i |-> st.i + 1]

\* the lookahead of a long flag without '=' and of a single short flag:
\* addFlag(key, nextArg); i++ or addFlag(key, true)
valueOrTrue(st, argv, key) ==
    IF takesNext(argv, st.i)
    THEN [flags |-> addFlag(st.flags, key, StrV(argv[st.i + 1])),
          nonFlags |-> st.nonFlags, i |-> st.i + 2]
    ELSE [flags |-> addFlag(st.flags, key, BoolV(TRUE)),
          nonFlags |-> st.nonFlags, i |-> st.i + 1]

\* one iteration of the for loop, from loop state st = [flags, nonFlags, i]
\* (i is 1-based here) to the loop state before the next test of i
parseIter(st, argv) ==
    LET arg == argv[st.i]
    IN  IF arg = <<>>
        THEN [st EXCEPT !.i = st.i + 1]
        ELSE IF startsWith(arg, <<DASH, DASH>>)
        THEN LET key == slice(arg, 2)
             IN  IF includes(key, EQ)
                 THEN IF hasFlagName(key)
                      THEN [flags |-> addFlag(st.flags, eqFlagName(key), StrV(eqFlagValue(key))),
                            nonFlags |-> st.nonFlags, i |-> st.i + 1]
                      ELSE [st EXCEPT !.i = st.i + 1]
                 ELSE valueOrTrue(st, argv, key)
        ELSE IF shortToken(arg)
        THEN LET key == slice(arg, 1)
             IN  IF Len(key) = 1
                 THEN valueOrTrue(st, argv, key)
                 ELSE clusterStep(st, argv, key)
        ELSE [flags |-> st.flags, nonFlags |-> Append(st.nonFlags, arg), i |-> st.i + 1]

\* parsedFlagsOf as return { _: nonFlags, ...flags } would compute it
parsedFlagsOf_flagsLast(fl, nf) ==
    IF K_underscore \in DOMAIN fl THEN fl ELSE Set(fl, K_underscore, StrArr(nf))

\* return { ...flags, _: nonFlags }
parsedFlagsOf(fl, nf) == Set(fl, K_underscore, StrArr(nf))

RECURSIVE parseLoop(_, _)
\* the for loop, from loop state st to the loop state at its exit
parseLoop(st, argv) == IF st.i > Len(argv) THEN st ELSE parseLoop(parseIter(st, argv), argv)

\* parseFlags(args)
parseFlags(argv) ==
    LET st == parseLoop([flags |-> EmptyObj, nonFlags |-> <<>>, i |-> 1], argv)
    IN  parsedFlagsOf(st.flags, st.nonFlags)

----------------------------------------------------------------------------
(* Alias and naming-convention resolution *)

RECURSIVE resolveAliasEntries(_, _)
\* the for loop over Object.entries(aliases); an entry is <<alias, target>>
resolveAliasEntries(resolved, entries) ==
    IF entries = <<>> THEN resolved
    ELSE LET alias == Head(entries)[1]
             target == Head(entries)[2]
         IN  IF In(resolved, alias)
             THEN resolveAliasEntries(Delete(Set(resolved, target, Get(resolved, alias)), alias),
                                      Tail(entries))
             ELSE resolveAliasEntries(resolved, Tail(entries))

resolveAliases(fl, optionsDef) ==
    IF ~optionsDef.hasAliases THEN fl ELSE resolveAliasEntries(fl, optionsDef.aliases)

UpperCase == {"A", "B", "C", "D", "E", "F", "G", "H", "I", "J", "K", "L", "M",
              "N", "O", "P", "Q", "R", "S", "T", "U", "V", "W", "X", "Y", "Z"}

toLowerCase(ch) ==
    CASE ch = "A" -> "a" [] ch = "B" -> "b" [] ch = "C" -> "c" [] ch = "D" -> "d"
      [] ch = "E" -> "e" [] ch = "F" -> "f" [] ch = "G" -> "g" [] ch = "H" -> "h"
      [] ch = "I" -> "i" [] ch = "J" -> "j" [] ch = "K" -> "k" [] ch = "L" -> "l"
      [] ch = "M" -> "m" [] ch = "N" -> "n" [] ch = "O" -> "o" [] ch = "P" -> "p"
      [] ch = "Q" -> "q" [] ch = "R" -> "r" [] ch = "S" -> "s" [] ch = "T" -> "t"
      [] ch = "U" -> "u" [] ch = "V" -> "v" [] ch = "W" -> "w" [] ch = "X" -> "x"
      [] ch = "Y" -> "y" [] ch = "Z" -> "z" [] OTHER -> ch

RECURSIVE camelToKebab(_)
\* str.replace(/[A-Z]/g, (letter) => `-${letter.toLowerCase()}`)
camelToKebab(str) ==
    IF str = <<>> THEN <<>>
    ELSE IF Head(str) \in UpperCase
    THEN <<DASH, toLowerCase(Head(str))>> \o camelToKebab(Tail(str))
    ELSE <<Head(str)>> \o camelToKebab(Tail(str))

RECURSIVE resolveKebabKeys(_, _)
\* the for loop over Object.keys(schema.shape); a schema is a sequence of fields
resolveKebabKeys(resolved, schema) ==
    IF schema = <<>> THEN resolved
    ELSE LET camelKey == Head(schema).key
             kebabKey == camelToKebab(camelKey)
         IN  IF ~In(resolved, camelKey) /\ In(resolved, kebabKey)
             THEN resolveKebabKeys(Delete(Set(resolved, camelKey, Get(resolved, kebabKey)), kebabKey),
                                   Tail(schema))
             ELSE resolveKebabKeys(resolved, Tail(schema))

resolveKebabCase(fl, schema) == resolveKebabKeys(fl, schema)

----------------------------------------------------------------------------
(* Array normalization.  A zod type is the sequence of its constructor     *)
(* names, outermost wrapper first: <<"ZodOptional", "ZodArray">>.          *)

RECURSIVE isZodArrayType(_)
isZodArrayType(zodType) ==
    IF zodType = <<>> THEN FALSE
    ELSE IF Head(zodType) \in {"ZodOptional", "ZodDefault"} /\ Len(zodType) > 1
    THEN isZodArrayType(Tail(zodType))
    ELSE Head(zodType) = "ZodArray"

RECURSIVE normalizeArrayFields(_, _)
normalizeArrayFields(options, schema) ==
    IF schema = <<>> THEN options
    ELSE LET key == Head(schema).key
         IN  IF In(options, key) /\ isZodArrayType(Head(schema).type)
                 /\ Get(options, key).t # "array"
             THEN normalizeArrayFields(Set(options, key, ArrV(<<Get(options, key)>>)), Tail(schema))
             ELSE normalizeArrayFields(options, Tail(schema))

----------------------------------------------------------------------------
(* The schema validator (zod), as validateOptions and                      *)
(* processCommandExecution use it: schema.parse(value) returns the parsed  *)
(* value or throws a ZodError carrying issues [path, message].             *)

Digits == <<"0", "1", "2", "3", "4", "5", "6", "7", "8", "9">>

\* String(n) for an array index n < 10
indexText(n) == <<Digits[n + 1]>>

\* zod's invalid_type issue; a missing value is reported as received "undefined"
invalidType(path, expected, received) ==
    [path |-> path, message |-> [code |-> "invalid_type", expected |-> expected, received |-> received]]

\* zod's too_small / too_big issue of a tuple
sizeIssue(code) ==
    [path |-> <<>>, message |-> [code |-> code, expected |-> "array", received |-> "array"]]

RECURSIVE zodParse(_, _, _, _, _)
RECURSIVE zodParseElements(_, _, _, _)

\* parse of one value against a type; present is FALSE for undefined.
\* Returns [has, out, issues]: has is FALSE when the output is undefined.
zodParse(zodType, dflt, present, value, path) ==
    LET head == Head(zodType)
        missing(expected) == [has |-> FALSE, out |-> value,
                              issues |-> <<invalidType(path, expected, "undefined")>>]
        wrong(expected) == [has |-> FALSE, out |-> value,
                            issues |-> <<invalidType(path, expected, value.t)>>]
        good == [has |-> TRUE, out |-> value, issues |-> <<>>]
    IN  CASE head = "ZodOptional" ->
                IF ~present THEN [has |-> FALSE, out |-> value, issues |-> <<>>]
                ELSE zodParse(Tail(zodType), dflt, TRUE, value, path)
          [] head = "ZodDefault" ->
                IF ~present THEN zodParse(Tail(zodType), dflt, TRUE, dflt, path)
                ELSE zodParse(Tail(zodType), dflt, TRUE, value, path)
          [] head = "ZodString" ->
                IF ~present THEN missing("string")
                ELSE IF value.t = "string" THEN good ELSE wrong("string")
          [] head = "ZodBoolean" ->
                IF ~present THEN missing("boolean")
                ELSE IF value.t = "boolean" THEN good ELSE wrong("boolean")
          [] head = "ZodArray" ->
                IF ~present THEN missing("array")
                ELSE IF value.t # "array" THEN wrong("array")
                ELSE LET elementIssues == zodParseElements(Tail(zodType), value.a, 1, path)
                     IN  [has |-> elementIssues = <<>>, out |-> value, issues |-> elementIssues]

\* the issues of the elements of an array, in index order
zodParseElements(elementType, elements, n, path) ==
    IF n > Len(elements) THEN <<>>
    ELSE zodParse(elementType, elements[n], TRUE, elements[n], Append(path, indexText(n - 1))).issues
         \o zodParseElements(elementType, elements, n + 1, path)

RECURSIVE zodObjectParse(_, _, _)
\* z.object(shape).parse(data): the fields in shape order, keys that the
\* shape does not declare are stripped.  acc = [out, issues]
zodObjectParse(data, schema, acc) ==
    IF schema = <<>> THEN acc
    ELSE LET field == Head(schema)
             present == In(data, field.key)
             r == zodParse(field.type, field.dflt, present,
                           IF present THEN Get(data, field.key) ELSE field.dflt, <<field.key>>)
         IN  zodObjectParse(data, Tail(schema),
                 [out |-> IF r.has THEN Set(acc.out, field.key, r.out) ELSE acc.out,
                  issues |-> acc.issues \o r.issues])

\* z.tuple([z.string(), ..., z.string().transform((s) => s + s)]).parse(list) for
\* a tuple of len items, the last one transformed: [issues, out]
zodTupleParse(list, len) ==
    [issues |-> IF Len(list) < len THEN <<sizeIssue("too_small")>>
                ELSE IF Len(list) > len THEN <<sizeIssue("too_big")>>
                ELSE <<>>,
     out |-> [n \in 1..Len(list) |-> IF n = len THEN list[n] \o list[n] ELSE list[n]]]

\* error.issues.map((issue) => `${issue.path.join('.')}: ${issue.message}`), kept
\* as the sequence that .join(', ') concatenates
issueTexts(issues) ==
    [n \in 1..Len(issues) |-> [path |-> join(issues[n].path, <<".">>), message |-> issues[n].message]]

----------------------------------------------------------------------------
(* Command definitions and configurations *)

NoDefault == BoolV(FALSE)

Field(key, zodType, dflt) == [key |-> key, type |-> zodType, dflt |-> dflt]

NoOptions == [schema |-> <<>>, hasAliases |-> FALSE, aliases |-> <<>>]

\* defineCommand({ options: defineOptions(z.object({ name: z.string(),
\*   verbose: z.boolean().default(false), files: z.array(z.string()).optional(),
\*   androidMax: z.string().optional() }), { v: 'verbose', n: 'name' }) })
RunCommand ==
    [hasOptions |-> TRUE,
     options |-> [schema |-> <<Field(K_name, <<"ZodString">>, NoDefault),
                               Field(K_verbose, <<"ZodDefault", "ZodBoolean">>, BoolV(FALSE)),
                               Field(K_files, <<"ZodOptional", "ZodArray", "ZodString">>, NoDefault),
                               Field(K_androidMax, <<"ZodOptional", "ZodString">>, NoDefault)>>,
                  hasAliases |-> TRUE,
                  aliases |-> << <<<<"v">>, K_verbose>>, <<<<"n">>, K_name>> >>],
     hasArgs |-> FALSE, argsLen |-> 0]

\* defineCommand({ args: z.tuple([z.string(), z.string().transform((s) => s + s)]) })
CpCommand == [hasOptions |-> FALSE, options |-> NoOptions, hasArgs |-> TRUE, argsLen |-> 2]

\* defineCommand({ action })
LsCommand == [hasOptions |-> FALSE, options |-> NoOptions, hasArgs |-> FALSE, argsLen |-> 0]

\* defineCommand({ options: defineOptions(z.object({ name: z.string().default('world') })) })
GreetCommand ==
    [hasOptions |-> TRUE,
     options |-> [schema |-> <<Field(K_name, <<"ZodDefault", "ZodString">>,
                                     StrV(<<"w", "o", "r", "l", "d">>))>>,
                  hasAliases |-> FALSE, aliases |-> <<>>],
     hasArgs |-> FALSE, argsLen |-> 0]

\* defineCommand({ options: defineOptions(z.object({
\*   files: z.array(z.string()).optional(), tags: z.array(z.string()).default([]),
\*   androidMax: z.string().optional(), toString: z.array(z.string()).optional() }),
\*   { f: 'files', a: 'b', b: 'c' }) })
BuildCommand ==
    [hasOptions |-> TRUE,
     options |-> [schema |-> <<Field(K_files, <<"ZodOptional", "ZodArray", "ZodString">>, NoDefault),
                               Field(K_tags, <<"ZodDefault", "ZodArray", "ZodString">>, ArrV(<<>>)),
                               Field(K_androidMax, <<"ZodOptional", "ZodString">>, NoDefault),
                               Field(W_toString, <<"ZodOptional", "ZodArray", "ZodString">>, NoDefault)>>,
                  hasAliases |-> TRUE,
                  aliases |-> << <<<<"f">>, K_files>>, <<<<"a">>, <<"b">>>>, <<<<"b">>, <<"c">>>> >>],
     hasArgs |-> FALSE, argsLen |-> 0]

\* defineCommand({ options: defineOptions(z.object({ help: z.boolean().optional() }),
\*   { h: 'help' }) })
InfoCommand ==
    [hasOptions |-> TRUE,
     options |-> [schema |-> <<Field(K_help, <<"ZodOptional", "ZodBoolean">>, NoDefault)>>,
                  hasAliases |-> TRUE,
                  aliases |-> << <<<<"h">>, K_help>> >>],
     hasArgs |-> FALSE, argsLen |-> 0]

\* a function inherited from Object.prototype has no options and no args property
InheritedFunction == [hasOptions |-> FALSE, options |-> NoOptions, hasArgs |-> FALSE, argsLen |-> 0]

CommandIds == {"run", "cp", "ls", "greet", "build", "info", "Object.prototype"}

Defs ==
    [id \in CommandIds |->
        CASE id = "run" -> RunCommand
          [] id = "cp" -> CpCommand
          [] id = "ls" -> LsCommand
          [] id = "greet" -> GreetCommand
          [] id = "build" -> BuildCommand
          [] id = "info" -> InfoCommand
          [] id = "Object.prototype" -> InheritedFunction]

\* config.commands: command name -> command
Registry == [n \in {W_run, W_cp, W_ls} |->
                CASE n = W_run -> "run" [] n = W_cp -> "cp" [] n = W_ls -> "ls"]

\* no default command, a default command of its own, a default command that is
\* also a named entry (with and without an option schema)
Configs ==
    {[commands |-> Registry, defaultCommand |-> d] : d \in {"undefined", "greet", "run", "ls"}}

\* config.commands[commandName]
lookupCommand(commands, name) ==
    IF name \in DOMAIN commands THEN commands[name]
    ELSE IF name \in ObjectPrototypeKeys THEN "Object.prototype"
    ELSE "undefined"

----------------------------------------------------------------------------
(* Argument vectors *)

T_help == <<DASH, DASH>> \o K_help
T_name == <<DASH, DASH>> \o K_name
T_force == <<DASH, DASH, "f", "o", "r", "c", "e">>
T_nameEq == <<DASH, DASH>> \o K_name \o <<EQ, "a", EQ, "b">>
T_nameEmpty == <<DASH, DASH>> \o K_name \o <<EQ>>
T_n == <<DASH, "n">>

Tokens == {W_run, W_cp, W_ls, W_x, W_toString, T_help, T_name, T_force, T_nameEq, T_nameEmpty, T_n}

ArgVectors == UNION {[1..n -> Tokens] : n \in 0..MaxArgs}

\* the tokens of the tokenizer's cases: empty string, lone dash, positional,
\* long flag with and without '=', short flag, cluster, an inherited key
T_empty == <<>>
T_dash == <<DASH>>
T_longA == <<DASH, DASH, "a">>
T_longAEq == <<DASH, DASH, "a", EQ, "x">>
T_a == <<DASH, "a">>
T_abc == <<DASH, "a", "b", "c">>
T_toString == <<DASH, DASH>> \o W_toString

TokenizerTokens == {T_empty, T_dash, W_x, W_ls, T_longA, T_longAEq, T_a, T_abc, T_toString}

TokenizerVectors == UNION {[1..n -> TokenizerTokens] : n \in 0..MaxArgs}

\* flags literally named '_', the key that carries the positionals
T_underscore == <<DASH, DASH>> \o K_underscore
T_underscoreEq == <<DASH, DASH>> \o K_underscore \o <<EQ, "x">>

CarrierTokens == {W_run, W_cp, W_ls, W_x, T_nameEq, T_underscore, T_underscoreEq}

CarrierVectors == UNION {[1..n -> CarrierTokens] : n \in 0..MaxArgs}

\* the spellings of a help request: with a value after '=', as a short alias
T_helpEq == <<DASH, DASH>> \o K_help \o <<EQ, "x">>
T_h == <<DASH, "h">>

HelpTokens == {T_help, T_helpEq, T_h, W_x, W_ls, W_toString}

HelpVectors == UNION {[1..n -> HelpTokens] : n \in 0..MaxArgs}

\* long flags with the empty key
T_doubleDash == <<DASH, DASH>>
T_emptyKeyEq == <<DASH, DASH, EQ, "x">>

EmptyKeyTokens == {T_doubleDash, T_emptyKeyEq, T_empty, T_a, W_x, W_ls}

EmptyKeyVectors == UNION {[1..n -> EmptyKeyTokens] : n \in 0..MaxArgs}

\* the option tokens of BuildCommand: canonical, alias and hyphenated spellings
T_files == <<DASH, DASH>> \o K_files
T_f == <<DASH, "f">>
T_b == <<DASH, "b">>
T_tags == <<DASH, DASH>> \o K_tags
T_androidMax == <<DASH, DASH>> \o K_androidMax
T_androidMaxKebab == <<DASH, DASH, "a", "n", "d", "r", "o", "i", "d", DASH, "m", "a", "x">>
T_toStringKebab == <<DASH, DASH, "t", "o", DASH, "s", "t", "r", "i", "n", "g">>

OptionTokens == {W_x, T_files, T_f, T_a, T_b, T_tags, T_androidMax, T_androidMaxKebab, T_toStringKebab}

OptionVectors == UNION {[1..n -> OptionTokens] : n \in 0..MaxArgs}

----------------------------------------------------------------------------
(* Outcomes of processConfig *)

NoError == [class |-> "", text |-> "", name |-> <<>>, issues |-> <<>>]

NoOutcome == [kind |-> "none", command |-> "undefined", options |-> EmptyObj, args |-> <<>>,
              exitCode |-> -1, error |-> NoError]

\* return { command, options, args }
Returned(cmd, options, list) ==
    [NoOutcome EXCEPT !.kind = "return", !.command = cmd, !.options = options, !.args = list]

\* process.exit(code)
Exited(code) == [NoOutcome EXCEPT !.kind = "exit", !.exitCode = code]

\* throw new Error(...) / a ZodError that nothing catches
Thrown(class, text, name, issues) ==
    [NoOutcome EXCEPT !.kind = "throw",
                      !.error = [class |-> class, text |-> text, name |-> name, issues |-> issues]]

\* what a call of processConfig selected, handed over and ended with
Invocation(cmd, list, bag, calls, ending) ==
    [command |-> cmd, routedArgs |-> list, handed |-> bag, trace |-> calls, outcome |-> ending]

NoInvocation == Invocation("undefined", <<>>, EmptyObj, <<>>, NoOutcome)

----------------------------------------------------------------------------
(* validateOptions and processCommandExecution *)

\* validateOptions that never reaches schema.parse
validateOptions_noSchema(fl, def) ==
    [threw |-> FALSE, options |-> EmptyObj, issues |-> <<>>, parsed |-> FALSE, handed |-> EmptyObj]

\* [threw, options, issues, parsed, handed]: threw when schema.parse throws its ZodError
validateOptions(fl, def) ==
    IF ~def.hasOptions
    THEN [threw |-> FALSE, options |-> EmptyObj, issues |-> <<>>, parsed |-> FALSE, handed |-> EmptyObj]
    ELSE LET resolvedAliases == resolveAliases(fl, def.options)
             resolvedKebab == resolveKebabCase(resolvedAliases, def.options.schema)
             options == Delete(resolvedKebab, K_underscore)
             normalizedOptions == normalizeArrayFields(options, def.options.schema)
             r == zodObjectParse(normalizedOptions, def.options.schema,
                                 [out |-> EmptyObj, issues |-> <<>>])
         IN  [threw |-> r.issues # <<>>, options |-> r.out, issues |-> r.issues,
              parsed |-> TRUE, handed |-> normalizedOptions]

\* [outcome, trace, handed] of processCommandExecution(command, parsedFlags, args)
processCommandExecution(cmd, fl, list) ==
    LET def == Defs[cmd]
        v == validateOptions(fl, def)
        optionCalls == IF v.parsed THEN <<"validateOptions", "options.schema.parse">>
                       ELSE <<"validateOptions">>
        a == zodTupleParse(list, def.argsLen)
        validatedArgs == IF def.hasArgs THEN a.out ELSE list
    IN  IF v.threw
        THEN [outcome |-> Thrown("ZodError", "", <<>>, v.issues),
              trace |-> optionCalls \o <<"throw">>, handed |-> v.handed]
        ELSE IF def.hasArgs /\ a.issues # <<>>
        THEN [outcome |-> Thrown("Error", "Argument validation failed: ", <<>>, issueTexts(a.issues)),
              trace |-> optionCalls \o <<"args.parse", "throw">>, handed |-> v.handed]
        ELSE [outcome |-> Returned(cmd, v.options, validatedArgs),
              trace |-> optionCalls \o (IF def.hasArgs THEN <<"args.parse">> ELSE <<>>) \o <<"return">>,
              handed |-> v.handed]

----------------------------------------------------------------------------
(* processConfig *)

Init ==
    /\ cfg \in Configs
    /\ args \in ArgVectors
    /\ pc = "parseFlags"
    /\ i = 1
    /\ flags = EmptyObj
    /\ nonFlags = <<>>
    /\ parsedFlags = EmptyObj
    /\ command = "undefined"
    /\ commandName = <<>>
    /\ routedArgs = <<>>
    /\ handed = EmptyObj
    /\ trace = <<>>
    /\ outcome = NoOutcome
    /\ invocation = 1
    /\ first = NoInvocation

\* (parsedFlags._ as string[]) || [], indexed as the code indexes it: the
\* elements of a list, the characters of a string
commandArgsOf(pf) ==
    LET carried == Get(pf, K_underscore)
    IN  IF carried.t = "array" THEN [n \in 1..Len(carried.a) |-> carried.a[n].s]
        ELSE IF carried.t = "string" THEN [n \in 1..Len(carried.s) |-> <<carried.s[n]>>]
        ELSE <<>>

\* parseFlags: one iteration of the loop over args
ParseToken ==
    /\ pc = "parseFlags"
    /\ i <= Len(args)
    /\ LET st == parseIter([flags |-> flags, nonFlags |-> nonFlags, i |-> i], args)
       IN  /\ flags' = st.flags
           /\ nonFlags' = st.nonFlags
           /\ i' = st.i
    /\ UNCHANGED <<cfg, args, pc, parsedFlags, command, commandName, routedArgs, handed, trace, outcome,
                   invocation, first>>

\* helpTrue as the truthiness test if (parsedFlags.help) would compute it
helpTrue_truthy(fl) ==
    /\ In(fl, K_help)
    /\ Get(fl, K_help) \notin {BoolV(FALSE), StrV(<<>>)}

\* parsedFlags.help === true
helpTrue(fl) == In(fl, K_help) /\ Get(fl, K_help) = BoolV(TRUE)

\* remainingArgs without the slice: the command name stays in the list
remainingArgs_keepName(commandArgs) == commandArgs

\* commandArgs.slice(1)
remainingArgs(commandArgs) == SubSeq(commandArgs, 2, Len(commandArgs))

\* noNameBranch with the default command tested before the help flag
noNameBranch_defaultFirst(pf, config) ==
    IF config.defaultCommand # "undefined" THEN "default"
    ELSE IF helpTrue(pf) THEN "help"
    ELSE "error"

\* the branch taken when there is no command name
noNameBranch(pf, config) ==
    IF helpTrue(pf) THEN "help"
    ELSE IF config.defaultCommand # "undefined" THEN "default"
    ELSE "error"

\* namedBranch without the help test
namedBranch_noHelp(pf) == "route"

\* the branch taken for a command name that config.commands holds
namedBranch(pf) == IF helpTrue(pf) THEN "help" ELSE "route"

\* displayHelp(...); process.exit(0)
topLevelHelp == [calls |-> <<"displayHelp", "process.exit">>, outcome |-> Exited(0)]

\* noCommand without the displayHelp call
noCommand_silent ==
    [calls |-> <<"throw">>,
     outcome |-> Thrown("Error", "No command specified.", <<>>, <<>>)]

\* displayHelp(...); throw new Error('No command specified.')
noCommand ==
    [calls |-> <<"displayHelp", "throw">>,
     outcome |-> Thrown("Error", "No command specified.", <<>>, <<>>)]

\* displayHelp(...); throw new Error(`Unknown command: ${commandName}`)
unknownCommand(name) ==
    [calls |-> <<"displayHelp", "throw">>,
     outcome |-> Thrown("Error", "Unknown command: ", name, <<>>)]

\* displayCommandHelp(...); process.exit(0)
commandHelp == [calls |-> <<"displayCommandHelp", "process.exit">>, outcome |-> Exited(0)]

\* processConfig from the return of parseFlags to the call of
\* processCommandExecution, or to the exit or throw that ends it
ResolveCommand ==
    /\ pc = "parseFlags"
    /\ i > Len(args)
    /\ LET pf == parsedFlagsOf(flags, nonFlags)
           commandArgs == commandArgsOf(pf)
           hasName == Len(commandArgs) > 0 /\ commandArgs[1] # <<>>
           name == IF Len(commandArgs) > 0 THEN commandArgs[1] ELSE <<>>
           found == lookupCommand(cfg.commands, name)
           branch == IF ~hasName THEN noNameBranch(pf, cfg)
                     ELSE IF found = "undefined" THEN "unknown"
                     ELSE namedBranch(pf)
           ending == IF ~hasName
                     THEN IF branch = "help" THEN topLevelHelp ELSE noCommand
                     ELSE IF branch = "unknown" THEN unknownCommand(name) ELSE commandHelp
       IN  /\ parsedFlags' = pf
           /\ commandName' = name
           /\ IF branch \in {"default", "route"}
              THEN /\ command' = IF ~hasName THEN cfg.defaultCommand ELSE found
                   /\ routedArgs' = IF ~hasName THEN commandArgs ELSE remainingArgs(commandArgs)
                   /\ pc' = "exec"
                   /\ UNCHANGED <<trace, outcome>>
              ELSE /\ trace' = trace \o ending.calls
                   /\ outcome' = ending.outcome
                   /\ pc' = "done"
                   /\ UNCHANGED <<command, routedArgs>>
    /\ UNCHANGED <<cfg, args, i, flags, nonFlags, handed, invocation, first>>

\* processCommandExecution(command, parsedFlags, routedArgs) and the return or
\* throw of processConfig
ProcessCommandExecution ==
    /\ pc = "exec"
    /\ LET r == processCommandExecution(command, parsedFlags, routedArgs)
       IN  /\ outcome' = r.outcome
           /\ trace' = trace \o r.trace
           /\ handed' = r.handed
    /\ pc' = "done"
    /\ UNCHANGED <<cfg, args, i, flags, nonFlags, parsedFlags, command, commandName, routedArgs,
                   invocation, first>>

Next == ParseToken \/ ResolveCommand \/ ProcessCommandExecution

Spec == Init /\ [][Next]_vars

\* newFlags as if flags were kept between calls of parseFlags
newFlags_kept == flags

\* const flags = {}: every call of parseFlags starts from a new object
newFlags == EmptyObj

\* a second call processConfig(config, args) after the first has ended, with
\* the same config and the same argument vector
Reinvoke ==
    /\ pc = "done"
    /\ invocation = 1
    /\ invocation' = 2
    /\ first' = Invocation(command, routedArgs, handed, trace, outcome)
    /\ pc' = "parseFlags"
    /\ i' = 1
    /\ flags' = newFlags
    /\ nonFlags' = <<>>
    /\ parsedFlags' = EmptyObj
    /\ command' = "undefined"
    /\ commandName' = <<>>
    /\ routedArgs' = <<>>
    /\ handed' = EmptyObj
    /\ trace' = <<>>
    /\ outcome' = NoOutcome
    /\ UNCHANGED <<cfg, args>>

NextTwice == Next \/ Reinvoke

\* processConfig called twice with the same config and argument vector
SpecTwice == Init /\ [][NextTwice]_vars

\* processConfig on the argument vectors of the tokenizer's cases, with and
\* without a default command
InitTokenizer ==
    /\ cfg \in Configs
    /\ args \in TokenizerVectors
    /\ pc = "parseFlags"
    /\ i = 1
    /\ flags = EmptyObj
    /\ nonFlags = <<>>
    /\ parsedFlags = EmptyObj
    /\ command = "undefined"
    /\ commandName = <<>>
    /\ routedArgs = <<>>
    /\ handed = EmptyObj
    /\ trace = <<>>
    /\ outcome = NoOutcome
    /\ invocation = 1
    /\ first = NoInvocation

SpecTokenizer == InitTokenizer /\ [][Next]_vars

\* processConfig on argument vectors that hold flags named '_'
InitCarrier ==
    /\ cfg \in Configs
    /\ args \in CarrierVectors
    /\ pc = "parseFlags"
    /\ i = 1
    /\ flags = EmptyObj
    /\ nonFlags = <<>>
    /\ parsedFlags = EmptyObj
    /\ command = "undefined"
    /\ commandName = <<>>
    /\ routedArgs = <<>>
    /\ handed = EmptyObj
    /\ trace = <<>>
    /\ outcome = NoOutcome
    /\ invocation = 1
    /\ first = NoInvocation

SpecCarrier == InitCarrier /\ [][Next]_vars

\* processConfig on the spellings of a help request, without a default command
\* and with InfoCommand (alias h -> help) as the default command
InitHelp ==
    /\ cfg \in {[commands |-> Registry, defaultCommand |-> d] : d \in {"undefined", "info"}}
    /\ args \in HelpVectors
    /\ pc = "parseFlags"
    /\ i = 1
    /\ flags = EmptyObj
    /\ nonFlags = <<>>
    /\ parsedFlags = EmptyObj
    /\ command = "undefined"
    /\ commandName = <<>>
    /\ routedArgs = <<>>
    /\ handed = EmptyObj
    /\ trace = <<>>
    /\ outcome = NoOutcome
    /\ invocation = 1
    /\ first = NoInvocation

SpecHelp == InitHelp /\ [][Next]_vars

\* processConfig on argument vectors that hold long flags with the empty key
InitEmptyKey ==
    /\ cfg \in Configs
    /\ args \in EmptyKeyVectors
    /\ pc = "parseFlags"
    /\ i = 1
    /\ flags = EmptyObj
    /\ nonFlags = <<>>
    /\ parsedFlags = EmptyObj
    /\ command = "undefined"
    /\ commandName = <<>>
    /\ routedArgs = <<>>
    /\ handed = EmptyObj
    /\ trace = <<>>
    /\ outcome = NoOutcome
    /\ invocation = 1
    /\ first = NoInvocation

SpecEmptyKey == InitEmptyKey /\ [][Next]_vars

\* processConfig with BuildCommand as the default command, on the argument
\* vectors of its option tokens
InitOptions ==
    /\ cfg = [commands |-> Registry, defaultCommand |-> "build"]
    /\ args \in OptionVectors
    /\ pc = "parseFlags"
    /\ i = 1
    /\ flags = EmptyObj
    /\ nonFlags = <<>>
    /\ parsedFlags = EmptyObj
    /\ command = "undefined"
    /\ commandName = <<>>
    /\ routedArgs = <<>>
    /\ handed = EmptyObj
    /\ trace = <<>>
    /\ outcome = NoOutcome
    /\ invocation = 1
    /\ first = NoInvocation

SpecOptions == InitOptions /\ [][Next]_vars

----------------------------------------------------------------------------
(* Properties *)

\* the tokenized flags hold help = true
HelpIsTrue == K_help \in DOMAIN flags /\ flags[K_help].t = "boolean" /\ flags[K_help].b

\* parseFlags has returned and processConfig has resolved the command
Resolved == pc \in {"exec", "done"}

\* the first positional is a name that config.commands registers
FirstIsRegistered == Len(nonFlags) > 0 /\ nonFlags[1] \in DOMAIN cfg.commands

\* the first positional is a name that config.commands does not register
FirstIsUnregistered == Len(nonFlags) > 0 /\ nonFlags[1] \notin DOMAIN cfg.commands

\* processConfig ended by throwing a validation error
ValidationThrown ==
    /\ outcome.kind = "throw"
    /\ \/ outcome.error.class = "ZodError"
       \/ outcome.error.text = "Argument validation failed: "

\* what the positional schema of CpCommand returns for list
ExpectedTuple(list) == IF Len(list) = 2 THEN <<list[1], list[2] \o list[2]>> ELSE list

\* C1 as stated: whenever the first positional is a registered command name and
\* help is not true, processConfig returns a result whose command is that
\* registry entry and whose args are the remaining positionals.
C1_AlwaysReturnsResult ==
    (pc = "done" /\ FirstIsRegistered /\ ~HelpIsTrue)
        => /\ outcome.kind = "return"
           /\ outcome.command = cfg.commands[nonFlags[1]]
           /\ outcome.args = Tail(nonFlags)

\* C1 amended: whenever the first positional is a registered command name and
\* help is not true, that registry entry and the remaining positionals (all but
\* the first, in order) are what is handed to validation; processConfig then
\* either throws the validation error or returns a result whose command is that
\* entry and whose args are the positional schema's output for the remaining
\* positionals (the remaining positionals themselves without a positional schema).
C1_RoutesToRegisteredCommand ==
    (Resolved /\ FirstIsRegistered /\ ~HelpIsTrue)
        => /\ command = cfg.commands[nonFlags[1]]
           /\ routedArgs = Tail(nonFlags)
           /\ pc = "done" =>
                /\ outcome.kind = "return" \/ ValidationThrown
                /\ outcome.kind = "return" =>
                     /\ outcome.command = cfg.commands[nonFlags[1]]
                     /\ outcome.args = IF Defs[command].hasArgs
                                       THEN ExpectedTuple(Tail(nonFlags))
                                       ELSE Tail(nonFlags)

C1_Witness ==
    /\ pc = "done"
    /\ FirstIsRegistered
    /\ ~HelpIsTrue
    /\ outcome.kind = "return"
    /\ outcome.command = "ls"
    /\ outcome.args = <<W_x, W_run>>

\* C2: whenever the first positional is not a registered command name,
\* processConfig renders top-level help and then throws the unknown-command
\* error naming that token, and no command is selected.
C2_UnknownCommandFails ==
    (Resolved /\ FirstIsUnregistered)
        => /\ pc = "done"
           /\ command = "undefined"
           /\ trace = <<"displayHelp", "throw">>
           /\ outcome.kind = "throw"
           /\ outcome.error.text = "Unknown command: "
           /\ outcome.error.name = nonFlags[1]

C4_TopLevelHelpFirst ==
    (Resolved /\ nonFlags = <<>> /\ HelpIsTrue)
        => /\ pc = "done"
           /\ command = "undefined"
           /\ handed = EmptyObj
           /\ trace = <<"displayHelp", "process.exit">>
           /\ outcome.kind = "exit"
           /\ outcome.exitCode = 0

C4_Witness ==
    /\ pc = "done"
    /\ nonFlags = <<>>
    /\ HelpIsTrue
    /\ cfg.defaultCommand = "run"
    /\ outcome.kind = "exit"

\* the runtime type a zod type accepts
AcceptedType(zodType) ==
    IF \E n \in 1..Len(zodType) : zodType[n] = "ZodArray" THEN "array"
    ELSE IF zodType[Len(zodType)] = "ZodString" THEN "string"
    ELSE "boolean"

\* options is a value of the object schema: only declared keys, every present
\* key of the accepted type, every key that is not optional present
Conforms(options, schema) ==
    /\ DOMAIN options \subseteq {schema[n].key : n \in 1..Len(schema)}
    /\ \A n \in 1..Len(schema) :
         /\ schema[n].type[1] # "ZodOptional" => schema[n].key \in DOMAIN options
         /\ schema[n].key \in DOMAIN options =>
                options[schema[n].key].t = AcceptedType(schema[n].type)

\* C5: with no positional, help not true and a default command configured,
\* processConfig selects the default command, validates the flag bag against
\* the default command's option schema, and consumes no token as a command name.
C5_DefaultCommandRoute ==
    (Resolved /\ nonFlags = <<>> /\ ~HelpIsTrue /\ cfg.defaultCommand # "undefined")
        => /\ command = cfg.defaultCommand
           /\ commandName = <<>>
           /\ routedArgs = nonFlags
           /\ pc = "done" =>
                /\ trace[1] = "validateOptions"
                /\ Defs[cfg.defaultCommand].hasOptions => trace[2] = "options.schema.parse"
                /\ outcome.kind = "return" =>
                     /\ outcome.command = cfg.defaultCommand
                     /\ outcome.args = <<>>
                     /\ Conforms(outcome.options, Defs[cfg.defaultCommand].options.schema)
                     /\ (cfg.defaultCommand = "greet" /\ K_name \in DOMAIN flags)
                            => outcome.options[K_name] = flags[K_name]
                /\ outcome.kind # "return" =>
                     /\ outcome.kind = "throw"
                     /\ outcome.error.class = "ZodError"
                     /\ outcome.error.issues # <<>>

C5_Witness ==
    /\ pc = "done"
    /\ nonFlags = <<>>
    /\ cfg.defaultCommand = "greet"
    /\ args = <<T_name, W_x>>
    /\ outcome.kind = "return"
    /\ outcome.command = "greet"
    /\ outcome.options[K_name] = StrV(W_x)

\* C6: when the first positional is a registered command and help = true,
\* processConfig renders that command's help and exits with status 0 before
\* any option check or schema validation runs, whatever other flags are
\* present, whether required options are missing, with or without a schema.
C6_CommandHelpFirst ==
    (Resolved /\ FirstIsRegistered /\ HelpIsTrue)
        => /\ pc = "done"
           /\ handed = EmptyObj
           /\ trace = <<"displayCommandHelp", "process.exit">>
           /\ outcome.kind = "exit"
           /\ outcome.exitCode = 0

C6_Witness ==
    /\ pc = "done"
    /\ nonFlags = <<W_run>>
    /\ HelpIsTrue
    /\ K_name \notin DOMAIN flags
    /\ slice(T_force, 2) \in DOMAIN flags
    /\ outcome.kind = "exit"

\* the keys of the flag bag after alias and naming-convention resolution that
\* are neither help, version nor a declared field of the schema
UnknownKeys(fl, optionsDef) ==
    {k \in DOMAIN Delete(resolveKebabCase(resolveAliases(fl, optionsDef), optionsDef.schema),
                         K_underscore) :
        /\ k \notin {K_help, K_version}
        /\ k \notin {optionsDef.schema[n].key : n \in 1..Len(optionsDef.schema)}}

\* C7: for a command with an option schema, a flag that is neither help,
\* version nor a declared field after resolution makes processing fail with
\* the unknown-option error, before schema validation runs.
C7_UnknownOptionWithSchema ==
    (pc = "done" /\ FirstIsRegistered /\ ~HelpIsTrue /\ Defs[command].hasOptions
        /\ UnknownKeys(parsedFlags, Defs[command].options) # {})
        => /\ outcome.kind = "throw"
           /\ outcome.error.text = "Unknown option: "
           /\ handed = EmptyObj

\* C8: for a command without an option schema, any flag other than help and
\* version makes processing fail with the unknown-option error.
C8_UnknownOptionWithoutSchema ==
    (pc = "done" /\ FirstIsRegistered /\ ~HelpIsTrue /\ ~Defs[command].hasOptions
        /\ DOMAIN flags \ {K_help, K_version} # {})
        => /\ outcome.kind = "throw"
           /\ outcome.error.text = "Unknown option: "

\* C9: option and positional validation failures are both re-signaled as the
\* uniform validation error listing path and reason of each issue; the
\* validator's own exception type never escapes processConfig.
C9_UniformValidationError ==
    (pc = "done" /\ outcome.kind = "throw"
        /\ outcome.error.text \notin {"No command specified.", "Unknown command: "})
        => /\ outcome.error.class = "Error"
           /\ outcome.error.text = "Argument validation failed: "
           /\ outcome.error.issues # <<>>

\* position of the first '=' of a token
FirstEq(arg) == CHOOSE p \in 1..Len(arg) : arg[p] = EQ /\ \A q \in 1..(p - 1) : arg[q] # EQ

\* the token scanned next is a long flag --K=V with a non-empty K
AtEqToken ==
    /\ pc = "parseFlags"
    /\ i <= Len(args)
    /\ Len(args[i]) > 3
    /\ args[i][1] = DASH
    /\ args[i][2] = DASH
    /\ args[i][3] # EQ
    /\ \E p \in 4..Len(args[i]) : args[i][p] = EQ

\* C10: scanning a token --K=V with non-empty K stores under the key between
\* the dashes and the first '=' the value that is everything after the first
\* '=' verbatim (alone for a first occurrence, as the last element otherwise),
\* changes no other key or positional and advances by exactly one token.
C10_SplitAtFirstEquals ==
    [][AtEqToken =>
        LET arg == args[i]
            K == SubSeq(arg, 3, FirstEq(arg) - 1)
            V == SubSeq(arg, FirstEq(arg) + 1, Len(arg))
        IN  /\ i' = i + 1
            /\ nonFlags' = nonFlags
            /\ DOMAIN flags' = DOMAIN flags \cup {K}
            /\ \A k \in DOMAIN flags \ {K} : flags'[k] = flags[k]
            /\ IF K \in DOMAIN flags \/ K \in ObjectPrototypeKeys
               THEN /\ flags'[K].t = "array"
                    /\ flags'[K].a[Len(flags'[K].a)] = StrV(V)
               ELSE flags'[K] = StrV(V)]_vars

C10_Witness ==
    /\ pc = "parseFlags"
    /\ i = 2
    /\ args = <<T_nameEq, W_x>>
    /\ flags = [k \in {K_name} |-> StrV(<<"a", EQ, "b">>)]
    /\ nonFlags = <<>>

\* the token scanned next is a long flag without '=' or a single-character
\* short flag
AtValueFlag ==
    /\ pc = "parseFlags"
    /\ i <= Len(args)
    /\ Len(args[i]) >= 2
    /\ args[i][1] = DASH
    /\ \/ args[i][2] = DASH /\ \A p \in 1..Len(args[i]) : args[i][p] # EQ
       \/ args[i][2] # DASH /\ Len(args[i]) = 2

\* the key of a long flag without '=' or of a single-character short flag
ValueFlagKey(arg) == IF arg[2] = DASH THEN SubSeq(arg, 3, Len(arg)) ELSE <<arg[2]>>

\* the step stored value as the latest occurrence of key: alone when the key
\* was new, as the last element of its sequence otherwise
StoredLast(key, value) ==
    /\ key \in DOMAIN flags'
    /\ IF key \in DOMAIN flags \/ key \in ObjectPrototypeKeys
       THEN /\ flags'[key].t = "array"
            /\ flags'[key].a[Len(flags'[key].a)] = value
       ELSE flags'[key] = value
    /\ \A k \in DOMAIN flags \ {key} : k \in DOMAIN flags' /\ flags'[k] = flags[k]

\* C11 as stated: for a long flag without '=' and for a single-character short
\* flag, a next token that exists and does not begin with a dash is consumed as
\* the value (the scan advances two tokens, no positional is added); otherwise
\* the value is boolean true and the next token is scanned on its own.
C11_NextTokenIsValue ==
    [][AtValueFlag =>
        /\ nonFlags' = nonFlags
        /\ IF i + 1 <= Len(args) /\ (args[i + 1] = <<>> \/ args[i + 1][1] # DASH)
           THEN i' = i + 2 /\ StoredLast(ValueFlagKey(args[i]), StrV(args[i + 1]))
           ELSE i' = i + 1 /\ StoredLast(ValueFlagKey(args[i]), BoolV(TRUE))]_vars

\* C11 amended: for a long flag without '=' and for a single-character short
\* flag, a next token that exists, is not the empty string and does not begin
\* with a dash is consumed as the value (the scan advances two tokens, no
\* positional is added); otherwise the value is boolean true and the next token
\* is scanned on its own.
C11_NonEmptyNextTokenIsValue ==
    [][AtValueFlag =>
        /\ nonFlags' = nonFlags
        /\ IF i + 1 <= Len(args) /\ args[i + 1] # <<>> /\ args[i + 1][1] # DASH
           THEN i' = i + 2 /\ StoredLast(ValueFlagKey(args[i]), StrV(args[i + 1]))
           ELSE i' = i + 1 /\ StoredLast(ValueFlagKey(args[i]), BoolV(TRUE))]_vars

C11_Witness ==
    /\ pc = "parseFlags"
    /\ args = <<T_a, W_x, T_longA>>
    /\ i = 4
    /\ nonFlags = <<>>
    /\ flags = [k \in {<<"a">>} |-> ArrV(<<StrV(W_x), BoolV(TRUE)>>)]

\* a token of one dash followed by two or more characters
IsCluster(arg) == Len(arg) >= 3 /\ arg[1] = DASH /\ arg[2] # DASH

\* the token scanned next is a cluster
AtCluster == pc = "parseFlags" /\ i <= Len(args) /\ IsCluster(args[i])

\* the token scanned next is a non-dash token that follows a cluster
AtTokenAfterCluster ==
    /\ pc = "parseFlags"
    /\ 2 <= i /\ i <= Len(args)
    /\ IsCluster(args[i - 1])
    /\ args[i] # <<>> /\ args[i][1] # DASH

\* the number of values fl holds under key
Stored(fl, key) ==
    IF key \notin DOMAIN fl THEN 0
    ELSE IF fl[key].t = "array" THEN Len(fl[key].a) ELSE 1

\* the values fl holds under key, in storage order
StoredValues(fl, key) ==
    IF key \notin DOMAIN fl THEN <<>>
    ELSE IF fl[key].t = "array" THEN fl[key].a ELSE <<fl[key]>>

\* the number of positions of str that hold ch
Count(str, ch) == Cardinality({p \in 1..Len(str) : str[p] = ch})

SeparateFlags(arg) == [p \in 1..(Len(arg) - 1) |-> <<DASH, arg[p + 1]>>]

RECURSIVE Declustered(_)
\* argv with every cluster token replaced, at its position, by its separate
\* short flags
Declustered(argv) ==
    IF argv = <<>> THEN <<>>
    ELSE (IF IsCluster(Head(argv)) THEN SeparateFlags(Head(argv)) ELSE <<Head(argv)>>)
         \o Declustered(Tail(argv))

\* C13: once the tokenizer has scanned the whole argument vector, its flag bag
\* and positional list are those of the vector in which every cluster token
\* -abc is replaced by the separate tokens -a -b -c at the same position.
C13_ClusterEqualsSeparateFlags ==
    (pc = "parseFlags" /\ i > Len(args))
        => parsedFlagsOf(flags, nonFlags) = parseFlags(Declustered(args))

\* arg is a long flag --K=V with a non-empty K
IsEqFlag(arg) ==
    /\ Len(arg) >= 4
    /\ arg[1] = DASH /\ arg[2] = DASH /\ arg[3] # EQ
    /\ \E p \in 4..Len(arg) : arg[p] = EQ

\* arg is a long flag without '=' or a single-character short flag
IsValueFlag(arg) ==
    /\ Len(arg) >= 2
    /\ arg[1] = DASH
    /\ \/ arg[2] = DASH /\ \A p \in 1..Len(arg) : arg[p] # EQ
       \/ arg[2] # DASH /\ Len(arg) = 2

\* the token at p is a flag that takes the token after it as its value
ConsumesNext(argv, p) ==
    /\ IsValueFlag(argv[p])
    /\ p + 1 <= Len(argv)
    /\ argv[p + 1] # <<>>
    /\ argv[p + 1][1] # DASH

\* the values that the token at p supplies for key, in order
OccurrencesAt(argv, p, key) ==
    LET arg == argv[p]
    IN  IF IsEqFlag(arg)
        THEN IF SubSeq(arg, 3, FirstEq(arg) - 1) = key
             THEN <<StrV(SubSeq(arg, FirstEq(arg) + 1, Len(arg)))>> ELSE <<>>
        ELSE IF IsValueFlag(arg)
        THEN IF ValueFlagKey(arg) = key
             THEN <<IF ConsumesNext(argv, p) THEN StrV(argv[p + 1]) ELSE BoolV(TRUE)>> ELSE <<>>
        ELSE IF IsCluster(arg) /\ Len(key) = 1
        THEN [n \in 1..Count(Tail(arg), key[1]) |-> BoolV(TRUE)]
        ELSE <<>>

RECURSIVE Occurrences(_, _, _)
\* the values of the occurrences of key in argv from position p on, in
\* occurrence order
Occurrences(argv, p, key) ==
    IF p > Len(argv) THEN <<>>
    ELSE OccurrencesAt(argv, p, key)
         \o Occurrences(argv, IF ConsumesNext(argv, p) THEN p + 2 ELSE p + 1, key)

\* the keys that the tokens of the tokenizer's cases name
OccurringKeys == {<<>>, <<"a">>, <<"b">>, <<"c">>, W_toString}

\* C14: once the tokenizer has scanned the whole argument vector, a key that
\* did not occur is absent, a key that occurred once holds its raw value, and
\* a key that occurred k >= 2 times holds the sequence of the k values of its
\* occurrences in occurrence order.
C14_AccumulatesInOccurrenceOrder ==
    (pc = "parseFlags" /\ i > Len(args))
        => \A key \in DOMAIN flags \cup OccurringKeys :
             LET occ == Occurrences(args, 1, key)
             IN  /\ Len(occ) = 0 => key \notin DOMAIN flags
                 /\ Len(occ) = 1 => key \in DOMAIN flags /\ flags[key] = occ[1]
                 /\ Len(occ) >= 2 => key \in DOMAIN flags /\ flags[key] = ArrV(occ)

\* C20: once the tokenizer has scanned the whole argument vector, every flag
\* value is boolean true, a string, or a sequence whose elements are all
\* strings.
C20_FlagValuesAreTyped ==
    (pc = "parseFlags" /\ i > Len(args))
        => \A key \in DOMAIN flags :
             \/ flags[key] = BoolV(TRUE)
             \/ flags[key].t = "string"
             \/ /\ flags[key].t = "array"
                /\ \A p \in 1..Len(flags[key].a) : flags[key].a[p].t = "string"

\* processConfig has selected a command that declares options
OptionsResolved == Resolved /\ command # "undefined" /\ Defs[command].hasOptions

\* the entries <<alias, target>> of the alias map of the selected command
AliasEntries ==
    LET aliases == Defs[command].options.aliases
    IN  {aliases[n] : n \in 1..Len(aliases)}

\* the entries whose alias key the tokenized bag holds
PresentAliases == {e \in AliasEntries : e[1] \in DOMAIN parsedFlags}

\* each target has at most one of its aliases present
OneAliasPerTarget == \A e1, e2 \in PresentAliases : e1[2] = e2[2] => e1 = e2

\* C15: when each target has at most one of its aliases present, the bag that
\* alias resolution returns holds, for every present alias, the alias's value
\* under the target key and not the alias key, and every key that is neither
\* an alias nor the target of a present alias is unchanged.
C15_AliasValueUnderTarget ==
    (OptionsResolved /\ OneAliasPerTarget)
        => LET resolved == resolveAliases(parsedFlags, Defs[command].options)
               aliasKeys == {e[1] : e \in AliasEntries}
               targets == {e[2] : e \in PresentAliases}
           IN  /\ \A e \in PresentAliases :
                     /\ e[2] \in DOMAIN resolved
                     /\ resolved[e[2]] = parsedFlags[e[1]]
                     /\ e[1] \notin DOMAIN resolved
               /\ \A k \in (DOMAIN parsedFlags \cup DOMAIN resolved) \ (aliasKeys \cup targets) :
                     /\ k \in DOMAIN parsedFlags
                     /\ k \in DOMAIN resolved
                     /\ resolved[k] = parsedFlags[k]

\* the keys of the fields that the option schema of the selected command declares
SchemaKeys ==
    LET schema == Defs[command].options.schema
    IN  {schema[n].key : n \in 1..Len(schema)}

\* the bag after alias resolution
AfterAliases == resolveAliases(parsedFlags, Defs[command].options)

\* the bag after alias and naming-convention resolution
AfterKebab == resolveKebabCase(AfterAliases, Defs[command].options.schema)

\* C16: for every schema field F absent from the bag after alias resolution,
\* a value held under the hyphenated variant of F is moved to key F and the
\* hyphenated key is removed; when F is present, F's value and the hyphenated
\* key with its value are left as they were.
C16_HyphenatedMovesToField ==
    OptionsResolved
        => \A F \in SchemaKeys :
             LET hyphenated == camelToKebab(F)
             IN  /\ (F \notin DOMAIN AfterAliases /\ hyphenated \in DOMAIN AfterAliases)
                        => /\ F \in DOMAIN AfterKebab
                           /\ AfterKebab[F] = AfterAliases[hyphenated]
                           /\ hyphenated \notin DOMAIN AfterKebab
                 /\ F \in DOMAIN AfterAliases
                        => /\ F \in DOMAIN AfterKebab
                           /\ AfterKebab[F] = AfterAliases[F]
                           /\ hyphenated \in DOMAIN AfterAliases
                                => /\ hyphenated \in DOMAIN AfterKebab
                                   /\ AfterKebab[hyphenated] = AfterAliases[hyphenated]

\* the bag that normalization receives: the resolved bag without the positionals
BeforeNormalization == Delete(AfterKebab, K_underscore)

\* the schema of the selected command declares key as array-typed, directly or
\* under optional/default wrappers
DeclaredArray(key) ==
    \E n \in 1..Len(Defs[command].options.schema) :
        LET field == Defs[command].options.schema[n]
        IN  /\ field.key = key
            /\ \E p \in 1..Len(field.type) :
                  /\ field.type[p] = "ZodArray"
                  /\ \A q \in 1..(p - 1) : field.type[q] \in {"ZodOptional", "ZodDefault"}

\* C17: in the bag handed to schema validation every present array-typed
\* field holds a sequence, a lone value V having become [V]; fields that are
\* absent, already sequences or not array-typed are as they were before
\* normalization.
C17_ArrayFieldsHoldSequences ==
    (pc = "done" /\ OptionsResolved)
        => /\ DOMAIN handed = DOMAIN BeforeNormalization
           /\ \A k \in DOMAIN handed :
                 IF DeclaredArray(k) /\ BeforeNormalization[k].t # "array"
                 THEN handed[k] = ArrV(<<BeforeNormalization[k]>>)
                 ELSE handed[k] = BeforeNormalization[k]

CommandDefinitions ==
    ({cfg.commands[n] : n \in DOMAIN cfg.commands} \cup {cfg.defaultCommand}) \ {"undefined"}

\* help was rendered and the process terminated successfully
EndedInHelp ==
    /\ outcome = Exited(0)
    /\ trace \in {<<"displayHelp", "process.exit">>, <<"displayCommandHelp", "process.exit">>}

EndedInNoCommand == outcome.kind = "throw" /\ outcome.error.text = "No command specified."

EndedInUnknownCommand == outcome.kind = "throw" /\ outcome.error.text = "Unknown command: "

\* one command definition was selected and handed to validation
EndedInValidation ==
    /\ command \in CommandDefinitions
    /\ Len(trace) > 0
    /\ trace[1] = "validateOptions"
    /\ Cardinality({n \in 1..Len(trace) : trace[n] = "validateOptions"}) = 1

\* C19: every invocation of processConfig ends in exactly one of a help path,
\* the NoCommand error, the UnknownCommand error, or one selected command
\* definition handed to validation; a result is returned only with a selected
\* command definition.
C19_ExactlyOneEnding ==
    pc = "done"
        => /\ Cardinality({e \in {"help", "noCommand", "unknownCommand", "validation"} :
                             \/ e = "help" /\ EndedInHelp
                             \/ e = "noCommand" /\ EndedInNoCommand
                             \/ e = "unknownCommand" /\ EndedInUnknownCommand
                             \/ e = "validation" /\ EndedInValidation}) = 1
           /\ (EndedInHelp \/ EndedInNoCommand \/ EndedInUnknownCommand) => command = "undefined"
           /\ outcome.kind = "return"
                => command \in CommandDefinitions /\ outcome.command = command

\* the token at q was consumed as the value of the flag immediately before it
ConsumedAsValue(argv, q) ==
    /\ q > 1
    /\ IsValueFlag(argv[q - 1])
    /\ argv[q] # <<>>
    /\ argv[q][1] # DASH

\* the token at q is a positional: non-empty, the lone '-' or not dash-led,
\* and not consumed as a value
IsPositionalAt(argv, q) ==
    /\ argv[q] # <<>>
    /\ argv[q] = <<DASH>> \/ argv[q][1] # DASH
    /\ ~ConsumedAsValue(argv, q)

RECURSIVE PositionalsUpTo(_, _)
\* the subsequence, in original order, of the positionals among the first n tokens
PositionalsUpTo(argv, n) ==
    IF n = 0 THEN <<>>
    ELSE IF IsPositionalAt(argv, n) THEN Append(PositionalsUpTo(argv, n - 1), argv[n])
    ELSE PositionalsUpTo(argv, n - 1)

\* C21: while and after the tokenizer scans, the positional list is exactly
\* the subsequence, in original order, of the scanned tokens that are
\* non-empty, are the lone '-' or do not begin with a dash, and were not
\* consumed as the value of the flag immediately before them; no empty-string
\* token is a positional or a flag value.
C21_PositionalsAreSubsequence ==
    /\ nonFlags = PositionalsUpTo(args, IF i > Len(args) THEN Len(args) ELSE i - 1)
    /\ \A n \in 1..Len(nonFlags) : nonFlags[n] # <<>>
    /\ \A key \in DOMAIN flags :
          \A n \in 1..Stored(flags, key) : StoredValues(flags, key)[n] # StrV(<<>>)

C21_Witness ==
    /\ pc = "done"
    /\ args = <<T_a, W_x, T_dash>>
    /\ nonFlags = <<T_dash>>
    /\ flags = [k \in {<<"a">>} |-> StrV(W_x)]

\* the positionals of the whole argument vector
Positionals == PositionalsUpTo(args, Len(args))

\* C22: the positional list that processConfig routes is the tokenizer's
\* positional list whatever flags named '_' the vector holds (all of it for
\* the default command, all but the command name otherwise); the key '_' is
\* never in the bag handed to option validation; and a returned result of a
\* command without positional schema has exactly the routed list as args.
C22_PositionalsPassThrough ==
    /\ K_underscore \notin DOMAIN handed
    /\ Resolved => parsedFlags[K_underscore] = StrArr(Positionals)
    /\ pc = "exec" \/ (pc = "done" /\ command # "undefined")
          => routedArgs = IF commandName = <<>> THEN Positionals ELSE Tail(Positionals)
    /\ (pc = "done" /\ outcome.kind = "return" /\ ~Defs[command].hasArgs)
          => outcome.args = routedArgs

C22_Witness ==
    /\ pc = "done"
    /\ args = <<W_ls, T_underscore, W_x>>
    /\ flags = [k \in {K_underscore} |-> StrV(W_x)]
    /\ outcome.kind = "return"
    /\ outcome.command = "ls"
    /\ outcome.args = <<>>

\* the token at q is a non-dash token directly after a long flag without '='
\* or a single-character short flag
FollowsValueFlag(argv, q) ==
    /\ q > 1
    /\ IsValueFlag(argv[q - 1])
    /\ argv[q] = <<>> \/ argv[q][1] # DASH

\* the flag at q - 1 holds the token at q among its values
HeldAsValue(q) ==
    LET key == ValueFlagKey(args[q - 1])
    IN  \E n \in 1..Stored(flags, key) : StoredValues(flags, key)[n] = StrV(args[q])

\* the command name is the first positional of the whole vector, and without
\* a positional the outcome is a help path, the default-command route or the
\* NoCommand error
NameIsFirstPositional ==
    /\ commandName = IF Positionals = <<>> THEN <<>> ELSE Positionals[1]
    /\ Positionals = <<>> =>
          /\ command \in {"undefined", cfg.defaultCommand}
          /\ pc = "done" =>
                /\ ~EndedInUnknownCommand
                /\ command = "undefined" => EndedInHelp \/ EndedInNoCommand

\* C23 as stated: once the command is resolved, every non-dash token directly
\* after a long flag without '=' or a single-character short flag is held as
\* that flag's value and is not the command name: the name is the first token
\* that is a positional, and without one the outcome is the default-command
\* route or NoCommand (or top-level help), never a named route.
C23_TokenAfterFlagIsValue ==
    Resolved
        => /\ \A q \in 1..Len(args) : FollowsValueFlag(args, q) => HeldAsValue(q)
           /\ NameIsFirstPositional

\* C23 amended: the same for every non-empty non-dash token directly after
\* such a flag; an empty-string token after the flag is skipped, the flag holds
\* true and the token after the empty one is scanned by the normal rules.
C23_NonEmptyTokenAfterFlagIsValue ==
    Resolved
        => /\ \A q \in 1..Len(args) :
                 /\ ConsumedAsValue(args, q) => HeldAsValue(q)
                 /\ (FollowsValueFlag(args, q) /\ args[q] = <<>>)
                       => /\ \E n \in 1..Stored(flags, ValueFlagKey(args[q - 1])) :
                                StoredValues(flags, ValueFlagKey(args[q - 1]))[n] = BoolV(TRUE)
                          /\ ~HeldAsValue(q)
           /\ NameIsFirstPositional

C23_Witness ==
    /\ pc = "done"
    /\ args = <<T_longA, W_ls>>
    /\ cfg.defaultCommand = "undefined"
    /\ flags = [k \in {<<"a">>} |-> StrV(W_ls)]
    /\ commandName = <<>>
    /\ EndedInNoCommand

\* the default command was selected: a command without a command name
DefaultSelected == Resolved /\ command # "undefined" /\ commandName = <<>>

\* the first positional was resolved as a named command of the registry:
\* routed to it, or its help was rendered
ResolvedAsNamed ==
    /\ nonFlags[1] \in DOMAIN cfg.commands
    /\ \/ command = cfg.commands[nonFlags[1]] /\ routedArgs = Tail(nonFlags)
       \/ pc = "done" /\ command = "undefined" /\ EndedInHelp

\* C24: whenever the default command is selected the positional list passed
\* to it is empty and tokenization yielded no positional; an argument vector
\* with any positional never reaches the default route but is resolved as a
\* named command or fails with UnknownCommand.
C24_DefaultOnlyWithoutPositionals ==
    Resolved
        => /\ DefaultSelected => routedArgs = <<>> /\ nonFlags = <<>>
           /\ nonFlags # <<>>
                => /\ ~DefaultSelected
                   /\ ResolvedAsNamed \/ (pc = "done" /\ EndedInUnknownCommand)

\* C25 as stated: processConfig ends in a help path if and only if the raw
\* tokenized flag bag holds help = boolean true.
C25_HelpIffHelpIsTrue ==
    pc = "done" => (EndedInHelp <=> HelpIsTrue)

\* C25 amended: processConfig ends in a help path if and only if the raw
\* tokenized flag bag holds help = boolean true and the first positional, if
\* there is one, is found in config.commands; a help key that holds a string
\* or a sequence, or a short alias of help, renders no help, and with help =
\* true an unknown first positional ends in the UnknownCommand error.
C25_HelpIffHelpIsTrueAndFound ==
    pc = "done"
        => /\ EndedInHelp <=>
                /\ HelpIsTrue
                /\ nonFlags = <<>> \/ lookupCommand(cfg.commands, nonFlags[1]) # "undefined"
           /\ (HelpIsTrue /\ ~EndedInHelp) => EndedInUnknownCommand
           /\ ~HelpIsTrue => \A n \in 1..Len(trace) : trace[n] # "process.exit"

C25_Witness ==
    /\ pc = "done"
    /\ args = <<T_h>>
    /\ cfg.defaultCommand = "info"
    /\ flags = [k \in {<<"h">>} |-> BoolV(TRUE)]
    /\ handed = [k \in {K_help} |-> BoolV(TRUE)]
    /\ outcome.kind = "return"
    /\ outcome.command = "info"

\* the token scanned next is the bare '--'
AtDoubleDash == pc = "parseFlags" /\ i <= Len(args) /\ args[i] = <<DASH, DASH>>

\* the token scanned next is a long flag '--=V' with the empty key
AtEmptyKeyEq ==
    /\ pc = "parseFlags"
    /\ i <= Len(args)
    /\ Len(args[i]) >= 3
    /\ SubSeq(args[i], 1, 3) = <<DASH, DASH, EQ>>

\* a step from a bare '--' stores under the empty key the next token when
\* that is a non-empty non-dash token, and true otherwise
DoubleDashStep ==
    /\ nonFlags' = nonFlags
    /\ IF ConsumesNext(args, i)
       THEN i' = i + 2 /\ StoredLast(<<>>, StrV(args[i + 1]))
       ELSE i' = i + 1 /\ StoredLast(<<>>, BoolV(TRUE))

\* a step that drops the scanned token
DropStep == i' = i + 1 /\ flags' = flags /\ nonFlags' = nonFlags

\* after the scan every key holds the values of its occurrences in order
HoldsOccurrences ==
    \A key \in DOMAIN flags \cup OccurringKeys :
        LET occ == Occurrences(args, 1, key)
        IN  /\ Len(occ) = 0 => key \notin DOMAIN flags
            /\ Len(occ) = 1 => key \in DOMAIN flags /\ flags[key] = occ[1]
            /\ Len(occ) >= 2 => key \in DOMAIN flags /\ flags[key] = ArrV(occ)

\* C26: scanning a bare '--' stores under the empty key the next token, when
\* that is a non-empty non-dash token (advancing two tokens), and boolean true
\* otherwise, and adds no positional; scanning '--=V' changes neither the
\* flags nor the positionals; and '--' ends nothing: at every point of the
\* scan the positionals are those of the normal rules, and after it every key
\* holds the values of its occurrences before and after the '--'.
C26_DoubleDashIsAFlag ==
    /\ [][(AtDoubleDash => DoubleDashStep) /\ (AtEmptyKeyEq => DropStep)]_vars
    /\ [](nonFlags = PositionalsUpTo(args, IF i > Len(args) THEN Len(args) ELSE i - 1))
    /\ []((pc = "parseFlags" /\ i > Len(args)) => HoldsOccurrences)

C26_Witness ==
    /\ pc = "parseFlags"
    /\ args = <<T_doubleDash, W_x, T_a>>
    /\ i = 4
    /\ nonFlags = <<>>
    /\ flags = [k \in {<<>>, <<"a">>} |-> IF k = <<>> THEN StrV(W_x) ELSE BoolV(TRUE)]

====
